---- MODULE Spec2Model ----
(***************************************************************************)
(* A model of the retrieval and scoring pipeline of the financial          *)
(* intelligence platform: FinancialRAG (backend/ai/rag_engine.py), the     *)
(* generation client it calls (backend/ai/ernie_client.py), RiskScorer     *)
(* (backend/models/risk_scorer.py) and SentimentAnalyzer                   *)
(* (backend/models/sentiment.py).                                          *)
(*                                                                         *)
(*   SpecChunk  one run of FinancialRAG.chunk_text, one loop iteration per *)
(*              step, on every small text and configuration;               *)
(*   Spec       a single caller of index_document, query, delete_document  *)
(*              and get_stats, one whole call per step;                    *)
(*   SpecConc   several callers, interleaved at the calls into the index;  *)
(*   SpecLive   one query followed through its blocking calls while its    *)
(*              caller waits;                                              *)
(*   SpecRisk   one call of RiskScorer.calculate_risk;                     *)
(*   SpecSent   one call of SentimentAnalyzer.analyze or analyze_context   *)
(*              on every small text and company name;                      *)
(*   SpecLabel  the same calls on every compound score;                    *)
(*   SpecDefault  chunk_text with the chunk_size and overlap that          *)
(*              index_document uses;                                       *)
(*   SpecLevels the places that give a risk score its level;               *)
(*   SpecDocs   upload_document and the background task of each document   *)
(*              (backend/app.py).                                          *)
(*                                                                         *)
(* A Python str is a sequence of one-character strings.  Floats that the   *)
(* code computes on (cosine distances, the 0.7 window fraction, scores)    *)
(* are exact integers, fractions or integer comparisons here.              *)
(***************************************************************************)
EXTENDS Integers, Sequences, FiniteSets, TLC

VARIABLES
    \* FinancialRAG.chunk_text: arguments and locals; spans lists the
    \* (start, end) of every chunk appended, cpc is the position in the call
    text, chunk_size, overlap, start, chunks, spans, cpc,
    \* self.collection: the vectors stored in the ChromaDB collection
    collection,
    \* how the installed ChromaDB treats an add of an id that is stored already
    add_mode,
    \* the call made on the FinancialRAG object whose result the caller holds
    \* (name "none" between two calls), the calls it made to its collaborators
    \* with their outcomes, and what it returned
    op, log, ret,
    \* history: the documents whose vectors a delete_document has removed and
    \* that no index_document has stored again since
    deleted,
    \* concurrent callers: what each thread is doing in its call
    threads,
    \* RiskScorer.calculate_risk: arguments, the locals when it returns (exact
    \* fractions) and what it returns or raises
    articles, time_window_days, locals, risk,
    \* SentimentAnalyzer: the text and company name of the call, the compound
    \* score the VADER analyzer gives a text that is not blank, the text handed
    \* to analyze, the result, and the method called
    stext, company_name, vader, scored, sentiment, sent_op,
    \* a query followed through its blocking calls: position in the call, what
    \* its collaborators do, the matches it holds, and the time the caller has
    \* waited
    qpc, pending, matches, elapsed,
    \* the places that give a risk score its level: the score, and the level
    \* each place gives it
    level_score, levels,
    \* app.py: the rows of the documents table (the id of a row is its
    \* position), the background task added for each row, and the reply of
    \* the last upload
    documents, tasks, reply

chunk_vars == <<text, chunk_size, overlap, start, chunks, spans, cpc>>
rag_vars == <<collection, add_mode, op, log, ret, deleted, threads>>
risk_vars == <<articles, time_window_days, locals, risk>>
sent_vars == <<stext, company_name, vader, scored, sentiment, sent_op>>
live_vars == <<qpc, pending, matches, elapsed>>
app_vars == <<level_score, levels, documents, tasks, reply>>
vars == <<text, chunk_size, overlap, start, chunks, spans, cpc,
          collection, add_mode, op, log, ret, deleted, threads,
          articles, time_window_days, locals, risk,
          stext, company_name, vader, scored, sentiment, sent_op,
          qpc, pending, matches, elapsed,
          level_score, levels, documents, tasks, reply>>

(***************************************************************************)
(* Bounds of the model.                                                    *)
(***************************************************************************)
MaxShortLen == 5
MaxTextLen == 8
MaxChunk == 7

\* a run whose start advances on every iteration appends at most one chunk per
\* character; a longer run is cut here
MaxIter == MaxTextLen + 1

\* chunks of one document, and the largest top_k asked for
MaxChunks == 2
MaxTopK == 2

\* concurrent callers
MaxThreads == 2

(***************************************************************************)
(* Program constants.                                                      *)
(***************************************************************************)
DefaultChunkSize == 1000
DefaultOverlap == 200

\* no call is under way, nothing is returned
Idle == [name |-> "none"]
NoReturn == [returned |-> "None"]

Threads == 1..MaxThreads

Min2(a, b) == IF a <= b THEN a ELSE b
Max2(a, b) == IF a >= b THEN a ELSE b

\* no calculate_risk, no sentiment analysis and no followed query is under way
RiskIdle ==
    /\ articles = <<>>
    /\ time_window_days = 7
    /\ locals = Idle
    /\ risk = NoReturn

SentIdle ==
    /\ stext = <<>>
    /\ company_name = <<>>
    /\ vader = 0
    /\ scored = <<>>
    /\ sentiment = NoReturn
    /\ sent_op = "none"

LiveIdle ==
    /\ qpc = "idle"
    /\ pending = Idle
    /\ matches = <<>>
    /\ elapsed = 0

\* no score is being mapped, no document is uploaded
AppIdle ==
    /\ level_score = [num |-> 0, den |-> 1]
    /\ levels = Idle
    /\ documents = <<>>
    /\ tasks = <<>>
    /\ reply = NoReturn

(***************************************************************************)
(* Python str operations used by chunk_text.                               *)
(***************************************************************************)
\* s[i:j] clamps each index to 0..len(s) and counts a negative one from the end
SliceIndex(i, n) == IF i < 0 THEN Max2(i + n, 0) ELSE Min2(i, n)

Slice(s, i, j) ==
    LET lo == SliceIndex(i, Len(s))
        hi == SliceIndex(j, Len(s))
    IN  IF hi <= lo THEN <<>> ELSE SubSeq(s, lo + 1, hi)

\* s.rfind(c): the highest 0-based index of c in s, -1 when there is none
RFind(s, c) ==
    LET P == {k \in 1..Len(s) : s[k] = c}
    IN  IF P = {} THEN -1
        ELSE (CHOOSE k \in P : \A m \in P : m <= k) - 1

IsSpace(c) == c = " "

\* s.strip()
Strip(s) ==
    LET P == {k \in 1..Len(s) : ~IsSpace(s[k])}
    IN  IF P = {} THEN <<>>
        ELSE SubSeq(s, CHOOSE k \in P : \A m \in P : k <= m,
                       CHOOSE k \in P : \A m \in P : m <= k)

(***************************************************************************)
(* chunk_text, one loop iteration (rag_engine.py 46-58).                   *)
(***************************************************************************)
\* a break at any period past the first 30% of the window
InLastSeventyPercent(last_period, cs) == 10 * last_period > 3 * cs

\* "last_period > chunk_size * 0.7": in floats chunk_size * 0.7 is the exact
\* 7/10 of chunk_size for every chunk_size below 90 and for 1000
InLastThirtyPercent(last_period, cs) == 10 * last_period > 7 * cs

\* the value of `end` when the chunk is appended
WindowEnd(t, st, cs) ==
    LET end0 == st + cs
        last_period == RFind(Slice(t, st, end0), ".")
    IN  IF end0 < Len(t) /\ InLastThirtyPercent(last_period, cs)
        THEN st + last_period + 1
        ELSE end0

\* a step that adds the overlap instead of going back by it
NextStartSkips(end, ov) == end + ov

NextStart(end, ov) == end - ov

Chars == {"a", ".", " "}
Letters == {"a", "."}

RECURSIVE TextsOfLen(_, _)
TextsOfLen(n, alphabet) ==
    IF n = 0 THEN {<<>>}
    ELSE {Append(t, c) : t \in TextsOfLen(n - 1, alphabet), c \in alphabet}

\* every text of at most MaxShortLen characters, and every text without
\* whitespace of at most MaxTextLen characters
Texts ==
    UNION {TextsOfLen(n, Chars) : n \in 0..MaxShortLen}
    \cup UNION {TextsOfLen(n, Letters) : n \in 0..MaxTextLen}

\* chunk_size and overlap are unchecked ints; the overlaps explored go one
\* past chunk_size
ChunkSizes == (-1)..MaxChunk
Overlaps(cs) == 0..Max2(cs + 1, 1)

\* the 2500-character text without a period
LongText == [i \in 1..(2 * DefaultChunkSize + DefaultChunkSize \div 2) |-> "a"]

\* a text of letters with periods at the given indexes
PeriodText(n, periods) ==
    [i \in 1..n |-> IF (i - 1) \in periods THEN "." ELSE "a"]

\* the defaults divided by 100: like the default chunk_size, the scaled one
\* has a whole number of characters as its 70%
ScaledChunkSize == DefaultChunkSize \div 100
ScaledOverlap == DefaultOverlap \div 100

\* texts a little longer than one scaled window, with at most one period
ScaledLengths == (ScaledChunkSize + 1)..(ScaledChunkSize + 3)
AtMostOne(n) == {{}} \cup {{p} : p \in 0..(n - 1)}

InitChunk ==
    /\ \/ /\ text \in Texts
          /\ chunk_size \in ChunkSizes
          /\ overlap \in Overlaps(chunk_size)
       \/ /\ \E n \in ScaledLengths : \E periods \in AtMostOne(n) :
                text = PeriodText(n, periods)
          /\ chunk_size = ScaledChunkSize
          /\ overlap \in {0, ScaledOverlap}
       \/ /\ text = LongText
          /\ chunk_size = DefaultChunkSize
          /\ overlap = DefaultOverlap
    /\ start = 0
    /\ chunks = <<>>
    /\ spans = <<>>
    /\ cpc = "entry"
    /\ collection = {}
    /\ add_mode = "ignore"
    /\ op = Idle
    /\ log = <<>>
    /\ ret = NoReturn
    /\ deleted = {}
    /\ threads = [t \in Threads |-> Idle]
    /\ RiskIdle /\ SentIdle /\ LiveIdle /\ AppIdle

\* lines 43-44
ChunkEnter ==
    /\ cpc = "entry"
    /\ chunks' = <<>>
    /\ start' = 0
    /\ spans' = <<>>
    /\ cpc' = "loop"
    /\ UNCHANGED <<text, chunk_size, overlap>>
    /\ UNCHANGED rag_vars
    /\ UNCHANGED <<risk_vars, sent_vars, live_vars, app_vars>>

\* lines 46-58: one iteration of the while loop
ChunkStep ==
    /\ cpc = "loop"
    /\ start < Len(text)
    /\ Len(chunks) < MaxIter
    /\ LET end == WindowEnd(text, start, chunk_size)
       IN  /\ chunks' = Append(chunks, Strip(Slice(text, start, end)))
           /\ spans' = Append(spans, <<start, end>>)
           /\ start' = NextStart(end, overlap)
    /\ UNCHANGED <<text, chunk_size, overlap, cpc>>
    /\ UNCHANGED rag_vars
    /\ UNCHANGED <<risk_vars, sent_vars, live_vars, app_vars>>

\* line 60
ChunkReturn ==
    /\ cpc = "loop"
    /\ ~(start < Len(text))
    /\ cpc' = "done"
    /\ UNCHANGED <<text, chunk_size, overlap, start, chunks, spans>>
    /\ UNCHANGED rag_vars
    /\ UNCHANGED <<risk_vars, sent_vars, live_vars, app_vars>>

NextChunk == ChunkEnter \/ ChunkStep \/ ChunkReturn

SpecChunk == InitChunk /\ [][NextChunk]_vars

(***************************************************************************)
(* chunk_text as index_document calls it (line 74): chunk_size 1000 and     *)
(* overlap 200, on texts of letters whose periods lie at some of the       *)
(* indexes below: in the middle of the first window, at and next to its    *)
(* 70% mark, at its last character, and at the 70% mark and near the end   *)
(* of later windows.                                                       *)
(***************************************************************************)
PeriodIndexes == {400, 700, 701, 999, 1202, 1500}
DefaultLengths == {DefaultChunkSize + 1, Len(LongText)}

InitDefault ==
    /\ \E n \in DefaultLengths, periods \in SUBSET PeriodIndexes :
          text = PeriodText(n, periods)
    /\ chunk_size = DefaultChunkSize
    /\ overlap = DefaultOverlap
    /\ start = 0
    /\ chunks = <<>>
    /\ spans = <<>>
    /\ cpc = "entry"
    /\ collection = {}
    /\ add_mode = "ignore"
    /\ op = Idle
    /\ log = <<>>
    /\ ret = NoReturn
    /\ deleted = {}
    /\ threads = [t \in Threads |-> Idle]
    /\ RiskIdle /\ SentIdle /\ LiveIdle /\ AppIdle

SpecDefault == InitDefault /\ [][NextChunk]_vars

(***************************************************************************)
(* The vector index and its collaborators.                                 *)
(*                                                                         *)
(* A chunk text is one of three tokens.  The embedding model maps a token  *)
(* to a unit vector in the plane, named by its angle in quarter turns, so  *)
(* that the cosine distance 1 - cos of two embeddings is 0, 1 or 2.        *)
(***************************************************************************)
Tokens == <<"ta", "tb", "tc">>
TokenSet == {Tokens[k] : k \in 1..Len(Tokens)}

\* self.embedding_model.encode
Encode(t) == (CHOOSE k \in 1..Len(Tokens) : Tokens[k] = t) - 1

\* the collection is created with "hnsw:space": "cosine"
CosineDistance(e1, e2) == IF e1 >= e2 THEN e1 - e2 ELSE e2 - e1

\* the document ids of the callers: 0 and one more
DocIds == {0, 1}

\* document_id: Optional[int] = None
None == -1

\* what chunk_text(text) returns for the texts indexed: two texts of every
\* number n of chunks, whose tokens rotate from the first and from the second
ChunkList(v, n) == [i \in 1..n |-> Tokens[((v + i - 1) % Len(Tokens)) + 1]]
ChunkLists == {ChunkList(v, n) : v \in {0, 1}, n \in 0..MaxChunks}

Outcomes == {"ok", "raise"}

IndexEnvs ==
    {e \in [encode : Outcomes, add : Outcomes] :
        e.encode = "raise" => e.add = "ok"}

DeleteEnvs ==
    {e \in [get : Outcomes, delete : Outcomes] :
        e.get = "raise" => e.delete = "ok"}

\* the questions asked: at distance 0, 1 and 2 from the three tokens, and at
\* equal distance from two of them
Questions == {Tokens[1], Tokens[2]}

\* what the collaborators of one query do: a collaborator that is not
\* reached, because an earlier one raised, is listed as "ok"
QueryEnvs ==
    {e \in [encode : Outcomes, search : Outcomes, credentials : BOOLEAN,
            init : Outcomes, backend : {"ok", "invalid", "raise"}] :
        /\ (e.encode = "raise" => e.search = "ok")
        /\ (e.encode = "raise" \/ e.search = "raise")
              => (e.credentials /\ e.init = "ok" /\ e.backend = "ok")
        /\ ~e.credentials => e.init = "ok"
        /\ (~e.credentials \/ e.init = "raise") => e.backend = "ok"}

\* the id "doc_{document_id}_chunk_{i}" is the pair <<document_id, i>>
VectorId(document_id, i) == <<document_id, i>>

Ids(coll) == {v.id : v \in coll}

\* index_document, lines 79-89: the batch built from the chunks
Batch(document_id, chunk_list) ==
    {[id |-> VectorId(document_id, i),
      embedding |-> Encode(chunk_list[i + 1]),
      document |-> chunk_list[i + 1],
      document_id |-> document_id,
      chunk_id |-> i,
      total_chunks |-> Len(chunk_list)] : i \in 0..(Len(chunk_list) - 1)}

\* Collection.add of ChromaDB never replaces a stored record: it skips the
\* ids that are stored already ("ignore"), or raises on them and adds
\* nothing ("reject"), depending on the release installed
AddRejects(coll, batch, mode) ==
    mode = "reject" /\ Ids(batch) \cap Ids(coll) # {}

AddResult(coll, batch, mode) ==
    IF AddRejects(coll, batch, mode) THEN coll
    ELSE coll \cup {v \in batch : v.id \notin Ids(coll)}

\* an index_document that adds its chunks one add at a time, so that an add
\* that raises leaves the chunks added before it
IndexCallPerChunk(coll, document_id, chunk_list, env, mode) ==
    IF env.encode = "raise"
    THEN [collection |-> coll, ret |-> [raised |-> "Exception"],
          log |-> << <<"encode", "raise">> >>]
    ELSE LET batch == Batch(document_id, chunk_list)
         IN  IF env.add = "raise"
             THEN [collection |->
                       AddResult(coll, {v \in batch : v.chunk_id = 0}, "ignore"),
                   ret |-> [raised |-> "Exception"],
                   log |-> << <<"encode", "ok">>, <<"add", "raise">> >>]
             ELSE IF AddRejects(coll, batch, mode)
             THEN [collection |-> coll, ret |-> [raised |-> "Exception"],
                   log |-> << <<"encode", "ok">>, <<"add", "reject">> >>]
             ELSE [collection |-> AddResult(coll, batch, mode),
                   ret |-> [returned |-> Len(chunk_list)],
                   log |-> << <<"encode", "ok">>, <<"add", "ok">> >>]

\* index_document, lines 72-104
IndexCall(coll, document_id, chunk_list, env, mode) ==
    IF env.encode = "raise"
    THEN [collection |-> coll, ret |-> [raised |-> "Exception"],
          log |-> << <<"encode", "raise">> >>]
    ELSE LET batch == Batch(document_id, chunk_list)
         IN  IF env.add = "raise"
             THEN [collection |-> coll, ret |-> [raised |-> "Exception"],
                   log |-> << <<"encode", "ok">>, <<"add", "raise">> >>]
             ELSE IF AddRejects(coll, batch, mode)
             THEN [collection |-> coll, ret |-> [raised |-> "Exception"],
                   log |-> << <<"encode", "ok">>, <<"add", "reject">> >>]
             ELSE [collection |-> AddResult(coll, batch, mode),
                   ret |-> [returned |-> Len(chunk_list)],
                   log |-> << <<"encode", "ok">>, <<"add", "ok">> >>]

\* query, line 121: the filter is built only from a truthy document_id
Truthy(document_id) == document_id # None /\ document_id # 0

WhereFilter(document_id) == IF Truthy(document_id) THEN document_id ELSE None

Matching(coll, where) ==
    IF where = None THEN coll ELSE {v \in coll : v.document_id = where}

\* Collection.query: at most n_results of the matching vectors, nearest
\* first, in any order among equal distances
SearchResults(coll, query_embedding, n_results, where) ==
    LET M == Matching(coll, where)
        n == Min2(n_results, Cardinality(M))
        D(v) == CosineDistance(query_embedding, v.embedding)
    IN  {[i \in 1..n |-> [document |-> r[i].document,
                          chunk_id |-> r[i].chunk_id,
                          document_id |-> r[i].document_id,
                          distance |-> D(r[i])]] :
            r \in {s \in [1..n -> M] :
                    /\ \A i, j \in 1..n : i < j =>
                          (s[i] # s[j] /\ D(s[i]) <= D(s[j]))
                    /\ \A v \in M : (\A i \in 1..n : s[i] # v) =>
                          (\A i \in 1..n : D(s[i]) <= D(v))}}

NoInfoAnswer == "No relevant information found."
ErrorAnswer == "Error processing query"
MockAnswer == "mock response"
BackendAnswer == "backend result"
EmptyAnswer == ""

\* ERNIEClient.__init__, lines 18-31: mock mode without both credentials or
\* when the backend client cannot be built
MockMode(credentials, init) == ~credentials \/ init = "raise"

\* ERNIEClient.generate, lines 37-59: the answer, and how the call went
Generate(mock_mode, backend) ==
    IF mock_mode THEN [answer |-> MockAnswer, outcome |-> "mock"]
    ELSE CASE backend = "ok" -> [answer |-> BackendAnswer, outcome |-> "ok"]
           [] backend = "invalid" -> [answer |-> EmptyAnswer, outcome |-> "invalid"]
           [] backend = "raise" -> [answer |-> MockAnswer, outcome |-> "raise"]

MinDistance(results) ==
    CHOOSE d \in {results[i].distance : i \in 1..Len(results)} :
        \A i \in 1..Len(results) : d <= results[i].distance

\* query, line 172 and line 182
Relevance(distance) == 1 - distance
Confidence(results) == 1 - MinDistance(results)

\* a context whose labels count the matches from 0, as enumerate does
ContextZeroBased(results) ==
    [i \in 1..Len(results) |-> <<i - 1, results[i].document>>]

\* query, lines 142-145: "[Source i] ctx" for each match, joined
Context(results) == [i \in 1..Len(results) |-> <<i, results[i].document>>]

\* query, lines 168-176 (the preview of a source is left out)
Sources(results) ==
    [i \in 1..Len(results) |->
        [chunk_id |-> results[i].chunk_id,
         document_id |-> results[i].document_id,
         relevance |-> Relevance(results[i].distance)]]

\* query, lines 131-135 and 187-191
NoInfoResult == [answer |-> NoInfoAnswer, context |-> <<>>, sources |-> <<>>]
ErrorResult == [answer |-> ErrorAnswer, context |-> <<>>, sources |-> <<>>]

\* query, lines 137-183: the matches are not empty
AnswerCall(results, env) ==
    LET g == Generate(MockMode(env.credentials, env.init), env.backend)
    IN  [ret |-> [answer |-> g.answer,
                  context |-> Context(results),
                  sources |-> Sources(results),
                  confidence |-> Confidence(results)],
         log |-> << <<"encode", "ok">>, <<"search", "ok">>,
                    <<"generate", g.outcome>> >>]

\* a query that calls the generation client before it looks at the matches
QueryCallGenerateFirst(results, env) ==
    IF env.encode = "raise"
    THEN [ret |-> ErrorResult, log |-> << <<"encode", "raise">> >>]
    ELSE IF env.search = "raise"
    THEN [ret |-> ErrorResult,
          log |-> << <<"encode", "ok">>, <<"search", "raise">> >>]
    ELSE IF results = <<>>
    THEN [ret |-> NoInfoResult,
          log |-> << <<"encode", "ok">>, <<"search", "ok">>,
                     <<"generate",
                       Generate(MockMode(env.credentials, env.init),
                                env.backend).outcome>> >>]
    ELSE AnswerCall(results, env)

\* query, lines 116-191; results is what the search returns when it is made
QueryCall(results, env) ==
    IF env.encode = "raise"
    THEN [ret |-> ErrorResult, log |-> << <<"encode", "raise">> >>]
    ELSE IF env.search = "raise"
    THEN [ret |-> ErrorResult,
          log |-> << <<"encode", "ok">>, <<"search", "raise">> >>]
    ELSE IF results = <<>>
    THEN [ret |-> NoInfoResult,
          log |-> << <<"encode", "ok">>, <<"search", "ok">> >>]
    ELSE AnswerCall(results, env)

\* delete_document, lines 195-206: every exception is logged and swallowed
DeleteCall(coll, document_id, env) ==
    IF env.get = "raise"
    THEN [collection |-> coll, log |-> << <<"get", "raise">> >>]
    ELSE LET ids == {v.id : v \in Matching(coll, document_id)}
         IN  IF ids = {}
             THEN [collection |-> coll, log |-> << <<"get", "ok">> >>]
             ELSE IF env.delete = "raise"
             THEN [collection |-> coll,
                   log |-> << <<"get", "ok">>, <<"delete", "raise">> >>]
             ELSE [collection |-> {v \in coll : v.id \notin ids},
                   log |-> << <<"get", "ok">>, <<"delete", "ok">> >>]

\* get_stats, lines 210-217
StatsCall(coll, env) ==
    IF env.count = "raise"
    THEN [ret |-> [total_chunks |-> 0], log |-> << <<"count", "raise">> >>]
    ELSE [ret |-> [total_chunks |-> Cardinality(coll),
                   collection_name |-> "financial_documents"],
          log |-> << <<"count", "ok">> >>]

(***************************************************************************)
(* One caller: every step is one whole call.                               *)
(***************************************************************************)
Init ==
    /\ text = <<>>
    /\ chunk_size = DefaultChunkSize
    /\ overlap = DefaultOverlap
    /\ start = 0
    /\ chunks = <<>>
    /\ spans = <<>>
    /\ cpc = "idle"
    /\ collection = {}
    /\ add_mode \in {"ignore", "reject"}
    /\ op = Idle
    /\ log = <<>>
    /\ ret = NoReturn
    /\ deleted = {}
    /\ threads = [t \in Threads |-> Idle]
    /\ RiskIdle /\ SentIdle /\ LiveIdle /\ AppIdle

IndexDocument ==
    /\ op = Idle
    /\ \E document_id \in DocIds, chunk_list \in ChunkLists, env \in IndexEnvs :
        LET call == IndexCall(collection, document_id, chunk_list, env, add_mode)
        IN  /\ collection' = call.collection
            /\ ret' = call.ret
            /\ log' = call.log
            /\ op' = [name |-> "index_document", document_id |-> document_id,
                      chunks |-> chunk_list]
            /\ deleted' = IF "returned" \in DOMAIN call.ret /\ chunk_list # <<>>
                          THEN deleted \ {document_id} ELSE deleted
    /\ UNCHANGED <<add_mode, threads>>
    /\ UNCHANGED chunk_vars
    /\ UNCHANGED <<risk_vars, sent_vars, live_vars, app_vars>>

Query ==
    /\ op = Idle
    /\ \E question \in Questions, document_id \in DocIds \cup {None},
          top_k \in 1..MaxTopK, env \in QueryEnvs :
        \E results \in SearchResults(collection, Encode(question), top_k,
                                     WhereFilter(document_id)) :
            LET call == QueryCall(results, env)
            IN  /\ ret' = call.ret
                /\ log' = call.log
                /\ op' = [name |-> "query", document_id |-> document_id,
                          question |-> question, top_k |-> top_k]
    /\ UNCHANGED <<collection, add_mode, deleted, threads>>
    /\ UNCHANGED chunk_vars
    /\ UNCHANGED <<risk_vars, sent_vars, live_vars, app_vars>>

DeleteDocument ==
    /\ op = Idle
    /\ \E document_id \in DocIds, env \in DeleteEnvs :
        LET call == DeleteCall(collection, document_id, env)
        IN  /\ collection' = call.collection
            /\ ret' = NoReturn
            /\ log' = call.log
            /\ op' = [name |-> "delete_document", document_id |-> document_id]
            /\ deleted' = IF call.log = << <<"get", "ok">>, <<"delete", "ok">> >>
                          THEN deleted \cup {document_id} ELSE deleted
    /\ UNCHANGED <<add_mode, threads>>
    /\ UNCHANGED chunk_vars
    /\ UNCHANGED <<risk_vars, sent_vars, live_vars, app_vars>>

GetStats ==
    /\ op = Idle
    /\ \E env \in [count : Outcomes] :
        LET call == StatsCall(collection, env)
        IN  /\ ret' = call.ret
            /\ log' = call.log
            /\ op' = [name |-> "get_stats"]
    /\ UNCHANGED <<collection, add_mode, deleted, threads>>
    /\ UNCHANGED chunk_vars
    /\ UNCHANGED <<risk_vars, sent_vars, live_vars, app_vars>>

\* the caller takes what the call returned
Return ==
    /\ op # Idle
    /\ op' = Idle
    /\ log' = <<>>
    /\ ret' = NoReturn
    /\ UNCHANGED <<collection, add_mode, deleted, threads>>
    /\ UNCHANGED chunk_vars
    /\ UNCHANGED <<risk_vars, sent_vars, live_vars, app_vars>>

Next == IndexDocument \/ Query \/ DeleteDocument \/ GetStats \/ Return

Spec == Init /\ [][Next]_vars

(***************************************************************************)
(* Several callers of one FinancialRAG object.  The object holds no lock,  *)
(* so the calls interleave at their calls into the collection; each call   *)
(* into the collection is taken as atomic, and no collaborator fails.      *)
(***************************************************************************)
InitConc == Init

\* the callers work on one document
ConcDocIds == {1}

Frame(t, frame) == threads' = [threads EXCEPT ![t] = frame]

\* index_document, lines 74-89: the chunks are embedded and the batch built
ConcIndexBegin(t) ==
    /\ threads[t] = Idle
    /\ \E document_id \in ConcDocIds, chunk_list \in ChunkLists :
          Frame(t, [name |-> "index_document", at |-> "add",
                    batch |-> Batch(document_id, chunk_list)])
    /\ UNCHANGED <<collection, add_mode, op, log, ret, deleted>>
    /\ UNCHANGED chunk_vars
    /\ UNCHANGED <<risk_vars, sent_vars, live_vars, app_vars>>

\* index_document, lines 92-97: the batch is added
ConcIndexAdd(t) ==
    /\ threads[t].name = "index_document"
    /\ collection' = AddResult(collection, threads[t].batch, add_mode)
    /\ Frame(t, Idle)
    /\ UNCHANGED <<add_mode, op, log, ret, deleted>>
    /\ UNCHANGED chunk_vars
    /\ UNCHANGED <<risk_vars, sent_vars, live_vars, app_vars>>

\* delete_document, lines 197-201: the ids of the document are read
ConcDeleteGet(t) ==
    /\ threads[t] = Idle
    /\ \E document_id \in ConcDocIds :
          LET ids == {v.id : v \in Matching(collection, document_id)}
          IN  IF ids = {} THEN Frame(t, Idle)
              ELSE Frame(t, [name |-> "delete_document", at |-> "delete",
                             ids |-> ids])
    /\ UNCHANGED <<collection, add_mode, op, log, ret, deleted>>
    /\ UNCHANGED chunk_vars
    /\ UNCHANGED <<risk_vars, sent_vars, live_vars, app_vars>>

\* delete_document, line 202: the ids read are deleted
ConcDeleteDelete(t) ==
    /\ threads[t].name = "delete_document"
    /\ collection' = {v \in collection : v.id \notin threads[t].ids}
    /\ Frame(t, Idle)
    /\ UNCHANGED <<add_mode, op, log, ret, deleted>>
    /\ UNCHANGED chunk_vars
    /\ UNCHANGED <<risk_vars, sent_vars, live_vars, app_vars>>

\* query, lines 118-128: the search is made; the thread holds its matches
ConcQuerySearch(t) ==
    /\ threads[t] = Idle
    /\ \E question \in Questions, document_id \in ConcDocIds \cup {None},
          top_k \in 1..MaxTopK :
        \E results \in SearchResults(collection, Encode(question), top_k,
                                     WhereFilter(document_id)) :
            Frame(t, [name |-> "query", at |-> "generate",
                      results |-> results])
    /\ UNCHANGED <<collection, add_mode, op, log, ret, deleted>>
    /\ UNCHANGED chunk_vars
    /\ UNCHANGED <<risk_vars, sent_vars, live_vars, app_vars>>

\* get_stats, line 211: the count is read
ConcCount(t) ==
    /\ threads[t] = Idle
    /\ Frame(t, [name |-> "get_stats", at |-> "return",
                 count |-> Cardinality(collection)])
    /\ UNCHANGED <<collection, add_mode, op, log, ret, deleted>>
    /\ UNCHANGED chunk_vars
    /\ UNCHANGED <<risk_vars, sent_vars, live_vars, app_vars>>

\* query and get_stats return
ConcReturn(t) ==
    /\ threads[t].name \in {"query", "get_stats"}
    /\ Frame(t, Idle)
    /\ UNCHANGED <<collection, add_mode, op, log, ret, deleted>>
    /\ UNCHANGED chunk_vars
    /\ UNCHANGED <<risk_vars, sent_vars, live_vars, app_vars>>

NextConc ==
    \E t \in Threads :
        \/ ConcIndexBegin(t)
        \/ ConcIndexAdd(t)
        \/ ConcDeleteGet(t)
        \/ ConcDeleteDelete(t)
        \/ ConcQuerySearch(t)
        \/ ConcCount(t)
        \/ ConcReturn(t)

SpecConc == InitConc /\ [][NextConc]_vars

(***************************************************************************)
(* A query followed through its two blocking calls, the embedding of the   *)
(* question and the call of the generation backend, while the caller       *)
(* waits.  A collaborator that is "silent" never responds.  query takes no *)
(* timeout: the one held in op is the time its caller is ready to wait.    *)
(***************************************************************************)
MaxTimeout == 2
MaxWait == MaxTimeout + 1

\* what index_document has stored before the query
LiveCollections ==
    {Batch(document_id, chunk_list) :
        document_id \in DocIds, chunk_list \in ChunkLists}

\* what the collaborators of the query do; one that is not reached is "ok"
LiveEnvs ==
    {e \in [encode : {"ok", "raise", "silent"}, search : Outcomes,
            credentials : BOOLEAN, init : Outcomes,
            backend : {"ok", "invalid", "raise", "silent"}] :
        /\ (e.encode # "ok" => e.search = "ok")
        /\ (e.encode # "ok" \/ e.search = "raise")
              => (e.credentials /\ e.init = "ok" /\ e.backend = "ok")
        /\ ~e.credentials => e.init = "ok"
        /\ MockMode(e.credentials, e.init) => e.backend = "ok"}

InitLive ==
    /\ collection \in LiveCollections
    /\ add_mode = "ignore"
    /\ op = Idle
    /\ log = <<>>
    /\ ret = NoReturn
    /\ deleted = {}
    /\ threads = [t \in Threads |-> Idle]
    /\ LiveIdle /\ AppIdle
    /\ RiskIdle
    /\ SentIdle
    /\ text = <<>>
    /\ chunk_size = DefaultChunkSize
    /\ overlap = DefaultOverlap
    /\ start = 0
    /\ chunks = <<>>
    /\ spans = <<>>
    /\ cpc = "idle"

\* query is called, lines 106-116
LiveQuery ==
    /\ qpc = "idle"
    /\ \E question \in Questions, document_id \in DocIds \cup {None},
          top_k \in 1..MaxTopK, timeout \in 1..MaxTimeout, env \in LiveEnvs :
          /\ op' = [name |-> "query", document_id |-> document_id,
                    question |-> question, top_k |-> top_k,
                    timeout |-> timeout]
          /\ pending' = env
    /\ qpc' = "encode"
    /\ elapsed' = 0
    /\ log' = <<>>
    /\ ret' = NoReturn
    /\ matches' = <<>>
    /\ UNCHANGED <<collection, add_mode, deleted, threads>>
    /\ UNCHANGED <<chunk_vars, risk_vars, sent_vars, app_vars>>

\* line 118: the embedding model responds
LiveEncode ==
    /\ qpc = "encode"
    /\ pending.encode # "silent"
    /\ log' = Append(log, <<"encode", pending.encode>>)
    /\ IF pending.encode = "raise"
       THEN ret' = ErrorResult /\ qpc' = "returned"
       ELSE ret' = ret /\ qpc' = "search"
    /\ UNCHANGED <<collection, add_mode, op, deleted, threads>>
    /\ UNCHANGED <<pending, matches, elapsed>>
    /\ UNCHANGED <<chunk_vars, risk_vars, sent_vars, app_vars>>

\* lines 121-135: the search, and the result when nothing matches
LiveSearch ==
    /\ qpc = "search"
    /\ log' = Append(log, <<"search", pending.search>>)
    /\ \E results \in SearchResults(collection, Encode(op.question), op.top_k,
                                    WhereFilter(op.document_id)) :
          IF pending.search = "raise"
          THEN ret' = ErrorResult /\ qpc' = "returned" /\ matches' = matches
          ELSE IF results = <<>>
          THEN ret' = NoInfoResult /\ qpc' = "returned" /\ matches' = matches
          ELSE ret' = ret /\ qpc' = "generate" /\ matches' = results
    /\ UNCHANGED <<collection, add_mode, op, deleted, threads>>
    /\ UNCHANGED <<pending, elapsed>>
    /\ UNCHANGED <<chunk_vars, risk_vars, sent_vars, app_vars>>

\* the generation client waits for its backend
AwaitsBackend == ~MockMode(pending.credentials, pending.init)

\* lines 137-183: the generation client responds and query returns
LiveGenerate ==
    /\ qpc = "generate"
    /\ ~(AwaitsBackend /\ pending.backend = "silent")
    /\ LET g == Generate(MockMode(pending.credentials, pending.init),
                         pending.backend)
       IN  /\ log' = Append(log, <<"generate", g.outcome>>)
           /\ ret' = [answer |-> g.answer,
                      context |-> Context(matches),
                      sources |-> Sources(matches),
                      confidence |-> Confidence(matches)]
    /\ qpc' = "returned"
    /\ UNCHANGED <<collection, add_mode, op, deleted, threads>>
    /\ UNCHANGED <<pending, matches, elapsed>>
    /\ UNCHANGED <<chunk_vars, risk_vars, sent_vars, app_vars>>

\* time passes while query is in one of its blocking calls
LiveTick ==
    /\ qpc = "encode" \/ (qpc = "generate" /\ AwaitsBackend)
    /\ elapsed < MaxWait
    /\ elapsed' = elapsed + 1
    /\ UNCHANGED <<collection, add_mode, op, log, ret, deleted, threads>>
    /\ UNCHANGED <<qpc, pending, matches>>
    /\ UNCHANGED <<chunk_vars, risk_vars, sent_vars, app_vars>>

\* the caller takes the result
LiveTake ==
    /\ qpc = "returned"
    /\ qpc' = "idle"
    /\ op' = Idle
    /\ log' = <<>>
    /\ ret' = NoReturn
    /\ pending' = Idle
    /\ matches' = <<>>
    /\ elapsed' = 0
    /\ UNCHANGED <<collection, add_mode, deleted, threads>>
    /\ UNCHANGED <<chunk_vars, risk_vars, sent_vars, app_vars>>

NextLive ==
    LiveQuery \/ LiveEncode \/ LiveSearch \/ LiveGenerate \/ LiveTick
        \/ LiveTake

SpecLive == InitLive /\ [][NextLive]_vars

(***************************************************************************)
(* RiskScorer.calculate_risk (backend/models/risk_scorer.py).              *)
(*                                                                         *)
(* A sentiment is a whole number of ten-thousandths, the precision of a    *)
(* compound score.  A score is an exact fraction                           *)
(* [num, den] with den > 0; what calculate_risk returns rounded to two     *)
(* decimals is a whole number of hundredths (avg_sentiment, rounded to     *)
(* three, of thousandths).  A publishedAt value is named by how it parses  *)
(* and by the whole days (now - pub_date).days that lie between it and     *)
(* now, negative for a date in the future.                                 *)
(***************************************************************************)
\* articles in a list of any composition, and in a list of one repeated article
MaxArticles == 2
MaxUniform == 13

\* Config.WEIGHTS, in tenths, and Config.SOURCE_CREDIBILITY, in hundredths
Weights == [sentiment |-> 4, frequency |-> 3, recency |-> 2, credibility |-> 1]
SourceScores == [reuters |-> 100, default |-> 50]

Missing == "missing"

\* a strongly negative and a positive sentiment, and one whose score lies
\* next to a level threshold
Sentiments == {-10000, 6000, -2249}

PublishedAts ==
    {[kind |-> "naive", days |-> d] : d \in {-1, 0, 3, 12}}
    \cup {[kind |-> "zulu", days |-> 3], [kind |-> "unparsable", days |-> 0],
          [kind |-> Missing, days |-> 0]}

SourceNames == {"Reuters", "Blog"}

\* an article with a sentiment, and one without the key
Articles ==
    [sentiment : Sentiments, publishedAt : PublishedAts, source : SourceNames]
    \cup [publishedAt : PublishedAts, source : SourceNames]

\* the lengths of the lists of any composition, and of the longer lists of
\* copies of one article
ListLengths == 0..MaxArticles
UniformLengths == (MaxArticles + 1)..MaxUniform

TimeWindows == {-1, 0, 1, 7}

EntityNames == {<<>>, <<"a">>}

RECURSIVE SumSeq(_)
SumSeq(q) == IF q = <<>> THEN 0 ELSE q[1] + SumSeq(Tail(q))

\* np.mean of a list that is not empty
Mean(q) == [num |-> SumSeq(q), den |-> Len(q)]

\* round(x, places) of the fraction x, in units of 10^-places (scale is
\* 10^places); a tie goes to the even neighbour
Round(x, scale) ==
    LET n == x.num * scale
        q == n \div x.den
        r == n % x.den
    IN  IF 2 * r > x.den \/ (2 * r = x.den /\ q % 2 = 1) THEN q + 1 ELSE q

\* line 17: a.get('sentiment', 0)
SentimentOf(a) == IF "sentiment" \in DOMAIN a THEN a.sentiment ELSE 0

\* line 19: max(0, -avg_sentiment * 100), avg_sentiment in ten-thousandths
SentimentScore(avg_sentiment) ==
    IF avg_sentiment.num < 0
    THEN [num |-> -avg_sentiment.num, den |-> 100 * avg_sentiment.den]
    ELSE [num |-> 0, den |-> 100 * avg_sentiment.den]

\* a frequency without the division by the window
FrequencyScorePerCall(mention_count, time_window) ==
    IF 20 * mention_count >= 100
    THEN [num |-> 100, den |-> 1]
    ELSE [num |-> 20 * mention_count, den |-> 1]

\* line 23: min(100, (mention_count / time_window_days) * 20), for a window
\* that is not 0
FrequencyScore(mention_count, time_window) ==
    LET sign == IF time_window < 0 THEN -1 ELSE 1
        den == sign * time_window
        num == sign * 20 * mention_count
    IN  IF num >= 100 * den THEN [num |-> 100 * den, den |-> den]
        ELSE [num |-> num, den |-> den]

\* lines 29-35: a publishedAt that is missing (KeyError) or does not parse
\* (ValueError) gives 50; so does one with a timezone, trailing Z or offset,
\* since now is naive and the subtraction raises TypeError
Recency(article) ==
    IF article.publishedAt.kind = "naive"
    THEN Max2(0, 100 - article.publishedAt.days * 10)
    ELSE 50

\* line 41: the name in lower case
LowerName(name) ==
    CASE name = "Reuters" -> "reuters"
      [] name = "Blog" -> "blog"
      [] OTHER -> name

\* lines 41-43: the credibility of the source, times 100
Credibility(article) ==
    LET source == LowerName(article.source)
    IN  IF source \in DOMAIN SourceScores THEN SourceScores[source]
        ELSE SourceScores["default"]

\* lines 47-52: the weighted sum of four scores of denominators 100 n, w, n
\* and n
FinalRisk(sentiment_score, frequency_score, recency_score, credibility_score) ==
    LET k == sentiment_score.den \div recency_score.den
    IN  [num |-> frequency_score.den
                    * (Weights.sentiment * sentiment_score.num
                       + k * Weights.recency * recency_score.num
                       + k * Weights.credibility * credibility_score.num)
                 + sentiment_score.den * Weights.frequency
                     * frequency_score.num,
         den |-> 10 * sentiment_score.den * frequency_score.den]

AtLeast(x, k) == x.num >= k * x.den
Above(x, k) == x.num > k * x.den

\* the thresholds of the document-level risk display (opensource_analyzer.py)
GetRiskLevelDisplay(risk_score) ==
    IF Above(risk_score, 60) THEN "HIGH"
    ELSE IF Above(risk_score, 30) THEN "MEDIUM"
    ELSE "LOW"

\* _get_risk_level, lines 67-72
GetRiskLevel(risk_score) ==
    IF AtLeast(risk_score, 70) THEN "HIGH"
    ELSE IF AtLeast(risk_score, 40) THEN "MEDIUM"
    ELSE "LOW"

\* calculate_risk, lines 16-65, for a list that is not empty
ScoreArticles(arts, time_window) ==
    LET n == Len(arts)
        avg_sentiment == Mean([i \in 1..n |-> SentimentOf(arts[i])])
        sentiment_score == SentimentScore(avg_sentiment)
    IN  IF time_window = 0
        THEN [risk |-> [raised |-> "ZeroDivisionError"],
              locals |-> [name |-> "calculate_risk", line |-> 23]]
        ELSE LET frequency_score == FrequencyScore(n, time_window)
                 recency_scores == [i \in 1..n |-> Recency(arts[i])]
                 recency_score == Mean(recency_scores)
                 credibility_score ==
                     Mean([i \in 1..n |-> Credibility(arts[i])])
                 final_risk == FinalRisk(sentiment_score, frequency_score,
                                         recency_score, credibility_score)
             IN  [risk |->
                     [overall_risk |-> Round(final_risk, 100),
                      risk_level |-> GetRiskLevel(final_risk),
                      articles_analyzed |-> n,
                      avg_sentiment |->
                          Round([num |-> avg_sentiment.num,
                                 den |-> 10000 * avg_sentiment.den], 1000),
                      components |->
                          [sentiment_score |-> Round(sentiment_score, 100),
                           frequency_score |-> Round(frequency_score, 100),
                           recency_score |-> Round(recency_score, 100),
                           credibility_score |->
                               Round(credibility_score, 100)]],
                  locals |->
                     [name |-> "calculate_risk", line |-> 54,
                      sentiment_score |-> sentiment_score,
                      frequency_score |-> frequency_score,
                      recency_scores |-> recency_scores,
                      recency_score |-> recency_score,
                      credibility_score |-> credibility_score,
                      final_risk |-> final_risk]]

\* a calculate_risk without the check of line 13: the means of an empty list
\* are nan, no comparison with nan is true, and the level is LOW
CalculateRiskUnguarded(arts, time_window) ==
    IF arts = <<>>
    THEN IF time_window = 0
         THEN [risk |-> [raised |-> "ZeroDivisionError"],
               locals |-> [name |-> "calculate_risk", line |-> 23]]
         ELSE [risk |-> [overall_risk |-> "nan", risk_level |-> "LOW",
                         articles_analyzed |-> 0],
               locals |-> [name |-> "calculate_risk", line |-> 54]]
    ELSE ScoreArticles(arts, time_window)

\* calculate_risk, lines 12-65: what it returns or raises, and its locals
CalculateRisk(arts, time_window) ==
    IF arts = <<>>
    THEN [risk |-> [overall_risk |-> 0, risk_level |-> "UNKNOWN"],
          locals |-> [name |-> "calculate_risk", line |-> 14]]
    ELSE ScoreArticles(arts, time_window)

InitRisk ==
    /\ \/ \E n \in ListLengths : articles \in [1..n -> Articles]
       \/ \E n \in UniformLengths, a \in Articles : articles = [i \in 1..n |-> a]
    /\ time_window_days \in TimeWindows
    /\ company_name \in EntityNames
    /\ locals = Idle
    /\ risk = NoReturn
    /\ stext = <<>>
    /\ vader = 0
    /\ scored = <<>>
    /\ sentiment = NoReturn
    /\ sent_op = "none"
    /\ LiveIdle /\ AppIdle
    /\ text = <<>>
    /\ chunk_size = DefaultChunkSize
    /\ overlap = DefaultOverlap
    /\ start = 0
    /\ chunks = <<>>
    /\ spans = <<>>
    /\ cpc = "idle"
    /\ collection = {}
    /\ add_mode = "ignore"
    /\ op = Idle
    /\ log = <<>>
    /\ ret = NoReturn
    /\ deleted = {}
    /\ threads = [t \in Threads |-> Idle]

CalculateRiskCall ==
    /\ locals = Idle
    /\ LET call == CalculateRisk(articles, time_window_days)
       IN  /\ risk' = call.risk
           /\ locals' = call.locals
    /\ UNCHANGED <<articles, time_window_days>>
    /\ UNCHANGED <<chunk_vars, rag_vars, sent_vars, live_vars, app_vars>>

NextRisk == CalculateRiskCall

SpecRisk == InitRisk /\ [][NextRisk]_vars

(***************************************************************************)
(* SentimentAnalyzer (backend/models/sentiment.py).                        *)
(*                                                                         *)
(* A compound score is a whole number of ten-thousandths, the four         *)
(* decimals VADER rounds it to.  VADER itself is a collaborator: it gives  *)
(* a text without a word the compound 0 and any other text the score held  *)
(* in vader.  The proportions pos, neg and neu of a result are left out.   *)
(***************************************************************************)
MaxSentLen == 4
MaxNameLen == 2

\* the compound score 1.0, and the thresholds 0.05 and -0.05
CompoundOne == 10000
PositiveThreshold == 500
NegativeThreshold == -500

SentChars == {"a", "A", "b", "."}
NameChars == {"a", "A", "."}

SentTexts == UNION {TextsOfLen(n, SentChars) : n \in 0..MaxSentLen}
CompanyNames == UNION {TextsOfLen(n, NameChars) : n \in 0..MaxNameLen}

\* a label that takes the scores 0.05 and -0.05 themselves as neutral
GetLabelStrict(compound_score) ==
    IF compound_score > PositiveThreshold THEN "positive"
    ELSE IF compound_score < NegativeThreshold THEN "negative"
    ELSE "neutral"

\* _get_label, lines 17-22
GetLabel(compound_score) ==
    IF compound_score >= PositiveThreshold THEN "positive"
    ELSE IF compound_score <= NegativeThreshold THEN "negative"
    ELSE "neutral"

IsWordChar(c) == c \notin {".", " "}

\* self.vader.polarity_scores(t)['compound']
PolarityCompound(t, v) ==
    IF \E k \in 1..Len(t) : IsWordChar(t[k]) THEN v ELSE 0

\* analyze, lines 8-15
Analyze(t, v) ==
    LET compound == PolarityCompound(t, v)
    IN  [compound |-> compound, label |-> GetLabel(compound)]

\* str.lower
LowerChar(c) == IF c = "A" THEN "a" ELSE c
LowerStr(t) == [k \in 1..Len(t) |-> LowerChar(t[k])]

\* sub in t
Contains(sub, t) ==
    \E k \in 0..(Len(t) - Len(sub)) : SubSeq(t, k + 1, k + Len(sub)) = sub

\* t.split('.'): the pieces between the periods, empty ones included
RECURSIVE Split(_)
Split(t) ==
    IF \A k \in 1..Len(t) : t[k] # "." THEN <<t>>
    ELSE LET k == CHOOSE j \in 1..Len(t) :
                      t[j] = "." /\ \A m \in 1..(j - 1) : t[m] # "."
         IN  <<SubSeq(t, 1, k - 1)>> \o Split(SubSeq(t, k + 1, Len(t)))

\* ' '.join(pieces)
RECURSIVE Join(_)
Join(pieces) ==
    IF pieces = <<>> THEN <<>>
    ELSE IF Len(pieces) = 1 THEN pieces[1]
    ELSE pieces[1] \o <<" ">> \o Join(Tail(pieces))

\* a match of the name as it is written
MentionsExactly(sentence, name) == Contains(name, sentence)

\* line 27: company_name.lower() in s.lower()
Mentions(sentence, name) == Contains(LowerStr(name), LowerStr(sentence))

\* analyze_context, lines 26-33: the text that is handed to analyze
ContextText(t, name) ==
    LET relevant == SelectSeq(Split(t), LAMBDA piece : Mentions(piece, name))
    IN  IF relevant = <<>> THEN t ELSE Join(relevant)

\* the scores VADER gives in a run of analyze_context
CompoundSamples == {-CompoundOne, CompoundOne}

SentRest ==
    /\ scored = <<>>
    /\ sentiment = NoReturn
    /\ sent_op = "none"
    /\ RiskIdle
    /\ LiveIdle /\ AppIdle
    /\ text = <<>>
    /\ chunk_size = DefaultChunkSize
    /\ overlap = DefaultOverlap
    /\ start = 0
    /\ chunks = <<>>
    /\ spans = <<>>
    /\ cpc = "idle"
    /\ collection = {}
    /\ add_mode = "ignore"
    /\ op = Idle
    /\ log = <<>>
    /\ ret = NoReturn
    /\ deleted = {}
    /\ threads = [t \in Threads |-> Idle]

\* every text and company name, and one score of each sign
InitSent ==
    /\ stext \in SentTexts
    /\ company_name \in CompanyNames
    /\ vader \in CompoundSamples
    /\ SentRest

\* every compound score, for the empty text and for a text of one word
InitLabel ==
    /\ stext \in {<<>>, <<"a">>}
    /\ company_name = <<"a">>
    /\ vader \in (-CompoundOne)..CompoundOne
    /\ SentRest

AnalyzeCall ==
    /\ sent_op = "none"
    /\ sent_op' = "analyze"
    /\ scored' = stext
    /\ sentiment' = Analyze(stext, vader)
    /\ UNCHANGED <<stext, company_name, vader>>
    /\ UNCHANGED <<chunk_vars, rag_vars, risk_vars, live_vars, app_vars>>

AnalyzeContextCall ==
    /\ sent_op = "none"
    /\ sent_op' = "analyze_context"
    /\ scored' = ContextText(stext, company_name)
    /\ sentiment' = Analyze(scored', vader)
    /\ UNCHANGED <<stext, company_name, vader>>
    /\ UNCHANGED <<chunk_vars, rag_vars, risk_vars, live_vars, app_vars>>

NextSent == AnalyzeCall \/ AnalyzeContextCall

SpecSent == InitSent /\ [][NextSent]_vars

SpecLabel == InitLabel /\ [][NextSent]_vars

(***************************************************************************)
(* The places that give a 0-100 risk score its level.  SpecLevels maps     *)
(* every score of [0, 100], in hundredths, at each of them.                *)
(***************************************************************************)
\* get_company_details, app.py line 501
DetailsRiskLevel(score) ==
    IF Above(score, 60) THEN "HIGH"
    ELSE IF Above(score, 30) THEN "MEDIUM"
    ELSE "LOW"

\* FinancialAnalyzer._calculate_risk, opensource_analyzer.py line 181
AnalyzerRiskLevel(score) ==
    IF Above(score, 60) THEN "HIGH"
    ELSE IF Above(score, 30) THEN "MEDIUM"
    ELSE "LOW"

\* everything but the score mapped is at rest
LevelsRest ==
    /\ levels = Idle
    /\ documents = <<>>
    /\ tasks = <<>>
    /\ reply = NoReturn
    /\ RiskIdle /\ SentIdle
    /\ qpc = "idle" /\ pending = Idle /\ matches = <<>> /\ elapsed = 0
    /\ text = <<>>
    /\ chunk_size = DefaultChunkSize
    /\ overlap = DefaultOverlap
    /\ start = 0
    /\ chunks = <<>>
    /\ spans = <<>>
    /\ cpc = "idle"
    /\ collection = {}
    /\ add_mode = "ignore"
    /\ op = Idle
    /\ log = <<>>
    /\ ret = NoReturn
    /\ deleted = {}
    /\ threads = [t \in Threads |-> Idle]

InitLevels ==
    /\ \E n \in 0..10000 : level_score = [num |-> n, den |-> 100]
    /\ LevelsRest

\* the score is given its level at each place
MapRiskLevels ==
    /\ levels = Idle
    /\ levels' = [scorer |-> GetRiskLevel(level_score),
                  details |-> DetailsRiskLevel(level_score),
                  analyzer |-> AnalyzerRiskLevel(level_score)]
    /\ UNCHANGED <<level_score, documents, tasks, reply>>
    /\ UNCHANGED <<chunk_vars, rag_vars, risk_vars, sent_vars, live_vars>>

NextLevels == MapRiskLevels

SpecLevels == InitLevels /\ [][NextLevels]_vars

(***************************************************************************)
(* Document upload and its background task (app.py).  upload_document      *)
(* inserts the row and adds the task; the task sleeps, runs its try block  *)
(* and, when that raises, its except block.  Tasks of several documents    *)
(* interleave.                                                             *)
(***************************************************************************)
MaxDocs == 2

\* an uploaded file: whether its extension is allowed and its size is within
\* MAX_UPLOAD_SIZE_MB
Files == [extension : BOOLEAN, size : BOOLEAN]

\* the row upload_document inserts, lines 680-689
NewRow ==
    [processed |-> 0, ocr_confidence |-> "null", extracted_text |-> "null",
     analysis |-> "null"]

\* upload_document, lines 646-716; db is what saving the file and the
\* database do
UploadCall(rows, file, db) ==
    IF ~file.extension \/ ~file.size
    THEN [documents |-> rows, reply |-> [status |-> 400], accepted |-> FALSE]
    ELSE IF db = "raise"
    THEN [documents |-> rows, reply |-> [status |-> 500], accepted |-> FALSE]
    ELSE [documents |-> Append(rows, NewRow),
          reply |-> [status |-> 200, document_id |-> Len(rows) + 1],
          accepted |-> TRUE]

\* what the collaborators of one task do in its try block: the imports, the
\* text extraction, the analysis and the database update; one that is not
\* reached is listed as "ok"
TaskEnvs ==
    {e \in [imports : {"ok", "ImportError", "raise"},
            ocr : {"ok", "failed", "raise"},
            analysis : {"ok", "failed", "raise"},
            update : Outcomes] :
        /\ e.imports # "ok" => (e.ocr = "ok" /\ e.analysis = "ok")
        /\ e.imports = "raise" => e.update = "ok"
        /\ e.ocr # "ok" => (e.analysis = "ok" /\ e.update = "ok")
        /\ e.analysis = "raise" => e.update = "ok"}

\* process_document_background, lines 188-260: the try block; the row after
\* it and whether it raised
ProcessDocument(row, env) ==
    IF env.imports = "raise" THEN [row |-> row, raised |-> TRUE]
    ELSE IF env.imports = "ImportError"
    THEN IF env.update = "raise" THEN [row |-> row, raised |-> TRUE]
         ELSE [row |-> [row EXCEPT !.processed = 1,
                                   !.ocr_confidence = "0.85",
                                   !.extracted_text = "note"],
               raised |-> FALSE]
    ELSE IF env.ocr # "ok" \/ env.analysis = "raise" \/ env.update = "raise"
    THEN [row |-> row, raised |-> TRUE]
    ELSE [row |-> [row EXCEPT !.processed = 1,
                              !.ocr_confidence = "ocr",
                              !.extracted_text = "text",
                              !.analysis = IF env.analysis = "ok"
                                           THEN "json" ELSE "null"],
          raised |-> FALSE]

\* lines 262-279: the except block; its own exception is passed over
MarkProcessed(row, db) ==
    IF db = "raise" THEN row
    ELSE [row EXCEPT !.processed = 1, !.ocr_confidence = "0.80",
                     !.extracted_text = "error"]

\* everything but the documents is at rest
InitDocs ==
    /\ level_score = [num |-> 0, den |-> 1]
    /\ LevelsRest

UploadDocument ==
    /\ \E file \in Files, db \in Outcomes :
        LET call == UploadCall(documents, file, db)
        IN  /\ call.accepted => Len(documents) < MaxDocs
            /\ documents' = call.documents
            /\ reply' = call.reply
            /\ tasks' = IF call.accepted
                        THEN Append(tasks, [pc |-> "queued"]) ELSE tasks
    /\ UNCHANGED <<level_score, levels>>
    /\ UNCHANGED <<chunk_vars, rag_vars, risk_vars, sent_vars, live_vars>>

\* line 186: await asyncio.sleep(1)
TaskSleep(id) ==
    /\ tasks[id].pc = "queued"
    /\ tasks' = [tasks EXCEPT ![id] = [pc |-> "try"]]
    /\ UNCHANGED <<level_score, levels, documents, reply>>
    /\ UNCHANGED <<chunk_vars, rag_vars, risk_vars, sent_vars, live_vars>>

TaskTry(id) ==
    /\ tasks[id].pc = "try"
    /\ \E env \in TaskEnvs :
        LET call == ProcessDocument(documents[id], env)
        IN  /\ documents' = [documents EXCEPT ![id] = call.row]
            /\ tasks' = [tasks EXCEPT ![id] =
                            [pc |-> IF call.raised THEN "except" ELSE "done",
                             env |-> env]]
    /\ UNCHANGED <<level_score, levels, reply>>
    /\ UNCHANGED <<chunk_vars, rag_vars, risk_vars, sent_vars, live_vars>>

TaskExcept(id) ==
    /\ tasks[id].pc = "except"
    /\ \E db \in Outcomes :
        /\ documents' = [documents EXCEPT ![id] = MarkProcessed(@, db)]
        /\ tasks' = [tasks EXCEPT ![id] =
                        [pc |-> "done", env |-> @.env, mark |-> db]]
    /\ UNCHANGED <<level_score, levels, reply>>
    /\ UNCHANGED <<chunk_vars, rag_vars, risk_vars, sent_vars, live_vars>>

Sleep == \E id \in 1..Len(tasks) : TaskSleep(id)
Try == \E id \in 1..Len(tasks) : TaskTry(id)
Except == \E id \in 1..Len(tasks) : TaskExcept(id)

NextDocs == UploadDocument \/ Sleep \/ Try \/ Except

SpecDocs == InitDocs /\ [][NextDocs]_vars

(***************************************************************************)
(* Claims about chunk_text (checked under SpecChunk).                      *)
(***************************************************************************)
ValidConfig == chunk_size > 0 /\ 0 <= overlap /\ overlap < chunk_size

\* the part of the text a window holds: text[start:end] ends at len(text)
ClippedEnd(w) == Min2(w[2], Len(text))

\* C2: under a valid configuration (chunk_size > 0, 0 <= overlap < chunk_size)
\* every loop iteration strictly advances start, so that chunk_text
\* terminates wherever the periods lie.
C2_StartAdvances ==
    [][(ValidConfig /\ cpc = "loop" /\ Len(chunks') = Len(chunks) + 1)
          => start' > start]_vars

\* C3: a call with overlap >= chunk_size or chunk_size <= 0 fails with a
\* ConfigurationError before any chunk is produced: once entered, the call is
\* in its raised state with no chunk, and never in the loop.
C3_InvalidConfigRejected ==
    ((overlap >= chunk_size \/ chunk_size <= 0) /\ cpc # "entry")
        => (cpc = "raised" /\ chunks = <<>>)

\* C9: a text shorter than chunk_size (overlap < chunk_size) gives exactly one
\* chunk, the stripped text.  Stated for the non-empty texts only: the empty
\* text gives no chunk at all.
C9_ShortTextOneChunk ==
    (cpc = "done" /\ 0 < Len(text) /\ Len(text) < chunk_size
        /\ 0 <= overlap /\ overlap < chunk_size)
        => chunks = <<Strip(text)>>

\* C10: chunk_size 1000, overlap 200 and 2500 characters without a period
\* give exactly 3 chunks, with windows starting at 0, 800 and 1600, the last
\* one ending at 2500.
C10_ThreeChunks ==
    (cpc = "done" /\ text = LongText /\ chunk_size = DefaultChunkSize
        /\ overlap = DefaultOverlap)
        => /\ Len(chunks) = 3
           /\ spans[1][1] = 0
           /\ spans[2][1] = DefaultChunkSize - DefaultOverlap
           /\ spans[3][1] = 2 * (DefaultChunkSize - DefaultOverlap)
           /\ ClippedEnd(spans[3]) = Len(LongText)

\* the characters of the text that window w holds: text[w[1]:w[2]]
CharEnd(w) == Max2(w[1], ClippedEnd(w))

\* the number of characters two windows have in common
Shared(w1, w2) ==
    Max2(0, Min2(CharEnd(w1), CharEnd(w2)) - Max2(w1[1], w2[1]))

\* C11: every chunk window has char_start <= char_end, and two consecutive
\* windows share exactly `overlap` characters of the text, except possibly the
\* pair that involves the final chunk.  Stated for the runs that return under
\* a valid configuration.
C11_ConsecutiveWindowsOverlap ==
    (cpc = "done" /\ ValidConfig) =>
        /\ \A i \in 1..Len(spans) : spans[i][1] <= spans[i][2]
        /\ \A i \in 1..(Len(spans) - 2) :
              Shared(spans[i], spans[i + 1]) = overlap

\* the whitespace the window of chunk i starts with, which strip() removed
LeadingSpace(i) ==
    LET w == Slice(text, spans[i][1], spans[i][2])
    IN  Len(w) - Len(Strip(w))
            - (IF Strip(w) = <<>> THEN 0
               ELSE Len(w) - (CHOOSE k \in 1..Len(w) :
                                 /\ ~IsSpace(w[k])
                                 /\ \A m \in (k + 1)..Len(w) : IsSpace(w[m])))

\* the part of chunk i that lies after the end of the window before it
NewPart(i) ==
    LET before == IF i = 1 THEN 0 ELSE CharEnd(spans[i - 1])
        from == Max2(0, before - (spans[i][1] + LeadingSpace(i)))
    IN  Slice(chunks[i], from, Max2(from, Len(chunks[i])))

RECURSIVE NewParts(_)
NewParts(n) == IF n = 0 THEN <<>> ELSE NewParts(n - 1) \o NewPart(n)

NoSpace(s) == SelectSeq(s, LAMBDA c : ~IsSpace(c))

Called(callee, outcome) == \E i \in 1..Len(log) : log[i] = <<callee, outcome>>

Calls(callee) == {i \in 1..Len(log) : log[i][1] = callee}

\* C1: query never raises, and whenever the embedding call, the index search
\* or the generation call fails, it returns the error result: an answer that
\* describes the error, an empty context and no sources.
C1_FailureGivesErrorResult ==
    op.name = "query" =>
        /\ "answer" \in DOMAIN ret
        /\ (Called("encode", "raise") \/ Called("search", "raise")
                \/ Called("generate", "raise"))
            => (ret.answer = ErrorAnswer /\ ret.context = <<>>
                    /\ ret.sources = <<>>)

\* C4: once delete_document(D) has removed the vectors that index_document
\* stored for D, every query filtered to D returns no sources; and a
\* delete_document(D) leaves the vectors of every other document as they were.
C4_DeletedDocumentNotRetrieved ==
    /\ []((op.name = "query" /\ op.document_id \in deleted)
            => ret.sources = <<>>)
    /\ [][(op'.name = "delete_document")
            => (\A v \in collection \cup collection' :
                    v.document_id # op'.document_id
                        => (v \in collection /\ v \in collection'))]_vars

\* C5: at most one vector is stored per (document_id, chunk_index); and an
\* index_document of chunks whose ids are all stored already is not rejected,
\* leaves the newest embedding stored under each id, and leaves count() as it
\* was.
C5_ReindexOverwrites ==
    /\ [](\A v, w \in collection : v.id = w.id => v = w)
    /\ [][(/\ op'.name = "index_document"
           /\ op'.chunks # <<>>
           /\ Ids(Batch(op'.document_id, op'.chunks)) \subseteq Ids(collection)
           /\ ~(\E i \in 1..Len(log') : log'[i][2] = "raise"))
            => (/\ "returned" \in DOMAIN ret'
                /\ Batch(op'.document_id, op'.chunks) \subseteq collection'
                /\ Cardinality(collection') = Cardinality(collection))]_vars

\* the search of the query held in op was made and returned no match
SearchFoundNothing ==
    /\ op.name = "query"
    /\ Called("search", "ok")
    /\ Matching(collection, WhereFilter(op.document_id)) = {}

\* C7: when the search returns zero matches, query returns exactly the answer
\* "No relevant information found.", an empty context, no sources and no
\* confidence field, and the generation backend is not called.
C7_NoMatchResult ==
    SearchFoundNothing =>
        /\ ret.answer = NoInfoAnswer
        /\ ret.context = <<>>
        /\ ret.sources = <<>>
        /\ "confidence" \notin DOMAIN ret
        /\ Calls("generate") = {}

\* C7 happens: a filter that matches nothing in an index that holds vectors
C7_Witness ==
    /\ SearchFoundNothing
    /\ collection # {}
    /\ ret.answer = NoInfoAnswer

Clamp01(x) == Max2(0, Min2(1, x))

\* the cosine distance between the question of the query held in op and the
\* stored vector a source entry names
SourceDistance(src) ==
    LET v == CHOOSE w \in collection :
                 w.id = VectorId(src.document_id, src.chunk_id)
    IN  CosineDistance(Encode(op.question), v.embedding)

\* C8: in every result with matches, confidence is 1 minus the least distance
\* and every relevance is 1 minus the distance of its source, each clamped, so
\* that both lie in [0,1] for distances in [0,2].
C8_ClampedScores ==
    (op.name = "query" /\ "confidence" \in DOMAIN ret) =>
        LET n == Len(ret.sources)
            dist == [i \in 1..n |-> SourceDistance(ret.sources[i])]
        IN  /\ \A i \in 1..n :
                  /\ ret.sources[i].relevance = Clamp01(1 - dist[i])
                  /\ ret.sources[i].relevance \in 0..1
            /\ \E i \in 1..n :
                  /\ \A j \in 1..n : dist[i] <= dist[j]
                  /\ ret.confidence = Clamp01(1 - dist[i])
            /\ ret.confidence \in 0..1

(***************************************************************************)
(* Claims about concurrent callers (checked under SpecConc).               *)
(***************************************************************************)
VectorsOf(document_id) == {v \in collection : v.document_id = document_id}

\* none, or the whole batch of one index_document
WholeChunkSet(document_id) ==
    \/ VectorsOf(document_id) = {}
    \/ \E chunk_list \in ChunkLists :
          VectorsOf(document_id) = Batch(document_id, chunk_list)

\* C6: with index_document, delete_document, query and get_stats running
\* concurrently, the vectors of a document visible at any moment are none or
\* the complete chunk set of one indexing.  Stated for the index that rejects
\* an add of stored ids, where no sequence of whole calls mixes chunk sets.
C6_NoPartialChunkSet ==
    add_mode = "reject" =>
        \A document_id \in ConcDocIds : WholeChunkSet(document_id)

(***************************************************************************)
(* Claims about calculate_risk (checked under SpecRisk).                   *)
(***************************************************************************)
RiskCalled == locals # Idle

\* C13: with an empty article list calculate_risk returns exactly
\* {overall_risk: 0.0, risk_level: UNKNOWN}, for every entity name and every
\* time window, without raising; and it returns the level UNKNOWN only for
\* the empty list.
C13_EmptyGivesUnknown ==
    RiskCalled =>
        /\ articles = <<>>
              => risk = [overall_risk |-> 0, risk_level |-> "UNKNOWN"]
        /\ ("risk_level" \in DOMAIN risk /\ risk.risk_level = "UNKNOWN")
              <=> articles = <<>>

\* C13 happens: the empty list under a window of 0 days, for a named entity
C13_Witness ==
    /\ RiskCalled
    /\ articles = <<>>
    /\ time_window_days = 0
    /\ company_name # <<>>
    /\ risk.risk_level = "UNKNOWN"

Percent == 0..10000

\* C14: for every list of articles that is not empty, every time window and
\* every publication date, past or future, calculate_risk returns the four
\* component scores and overall_risk, each in [0,100].
C14_ScoresInRange ==
    (RiskCalled /\ articles # <<>>) =>
        /\ "components" \in DOMAIN risk
        /\ risk.components.sentiment_score \in Percent
        /\ risk.components.frequency_score \in Percent
        /\ risk.components.recency_score \in Percent
        /\ risk.components.credibility_score \in Percent
        /\ risk.overall_risk \in Percent

\* C15: for every input that is not empty the level returned is HIGH exactly
\* when the weighted final score is >= 70, MEDIUM exactly when it is >= 40
\* and < 70, and LOW exactly when it is < 40.
C15_LevelThresholds ==
    "final_risk" \in DOMAIN locals =>
        /\ risk.risk_level = "HIGH" <=> AtLeast(locals.final_risk, 70)
        /\ risk.risk_level = "MEDIUM"
              <=> (AtLeast(locals.final_risk, 40)
                      /\ ~AtLeast(locals.final_risk, 70))
        /\ risk.risk_level = "LOW" <=> ~AtLeast(locals.final_risk, 40)

\* C15 happens: a final score of exactly 70, and so HIGH
C15_Witness ==
    /\ "final_risk" \in DOMAIN locals
    /\ locals.final_risk.num = 70 * locals.final_risk.den
    /\ risk.risk_level = "HIGH"

\* every article has a positive sentiment, was published within the last day
\* and comes from a source of credibility 1.0; the window is the default one
AllPositiveRecentCredible ==
    /\ articles # <<>>
    /\ time_window_days = 7
    /\ \A i \in 1..Len(articles) :
          /\ SentimentOf(articles[i]) > 0
          /\ articles[i].publishedAt = [kind |-> "naive", days |-> 0]
          /\ Credibility(articles[i]) = 100

\* C16: every list, of any length, of articles that are all positive, all
\* published today and all from a fully credible source gets the level LOW
\* under the default weights and the 7-day window.
C16_PositiveRecentCredibleLow ==
    (RiskCalled /\ AllPositiveRecentCredible) => risk.risk_level = "LOW"

\* C16 as amended: such a list of at most 11 articles gets LOW (the final
\* score is 30 + 6n/7), and one of 12 or more gets MEDIUM.
C16_UpToElevenLow ==
    (RiskCalled /\ AllPositiveRecentCredible) =>
        /\ Len(articles) <= 11 => risk.risk_level = "LOW"
        /\ Len(articles) >= 12 => risk.risk_level = "MEDIUM"

\* C16 happens: eleven such articles, LOW
C16_Witness ==
    /\ RiskCalled
    /\ AllPositiveRecentCredible
    /\ Len(articles) = 11
    /\ risk.risk_level = "LOW"

\* what C17 gives an article: 50 for a publishedAt that is missing or
\* unparsable, max(0, 100 - 10d) for a valid one of d days ago, with or
\* without a timezone designator
ClaimedRecency(article) ==
    IF article.publishedAt.kind \in {Missing, "unparsable"} THEN 50
    ELSE Max2(0, 100 - 10 * article.publishedAt.days)

\* C17: no publishedAt makes calculate_risk fail, and with no article dated
\* in the future recency_score is the mean of 50 for each missing or
\* unparsable publishedAt and max(0, 100 - 10d) for each valid one.
C17_RecencyContributions ==
    (RiskCalled /\ articles # <<>> /\ time_window_days # 0
        /\ \A i \in 1..Len(articles) : articles[i].publishedAt.days >= 0) =>
        /\ "recency_score" \in DOMAIN locals
        /\ locals.recency_score =
              Mean([i \in 1..Len(articles) |-> ClaimedRecency(articles[i])])

(***************************************************************************)
(* Claims about the sentiment labels (checked under SpecLabel).            *)
(***************************************************************************)
\* C18: the label of a compound score c is positive exactly when c >= 0.05,
\* negative exactly when c <= -0.05 and neutral otherwise; the empty text has
\* the score 0 and the label neutral; every score has exactly one label.
C18_LabelThresholds ==
    sent_op # "none" =>
        /\ sentiment.label = "positive" <=> sentiment.compound >= PositiveThreshold
        /\ sentiment.label = "negative" <=> sentiment.compound <= NegativeThreshold
        /\ sentiment.label = "neutral"
              <=> (NegativeThreshold < sentiment.compound
                      /\ sentiment.compound < PositiveThreshold)
        /\ sentiment.label \in {"positive", "negative", "neutral"}
        /\ scored = <<>> => (sentiment.compound = 0 /\ sentiment.label = "neutral")

\* C18 happens: the score 0.05 itself, labelled positive
C18_Witness ==
    /\ sent_op = "analyze"
    /\ sentiment.compound = PositiveThreshold
    /\ sentiment.label = "positive"

(***************************************************************************)
(* Claims about analyze_context (checked under SpecSent).                  *)
(***************************************************************************)
\* the 0-based positions of the periods of the text, with one before its
\* start and one after its end
Cuts == {-1, Len(stext)} \cup {k \in 0..(Len(stext) - 1) : stext[k + 1] = "."}

\* a sentence is the text between two cuts with no cut between them
SentenceAt(c) ==
    LET d == CHOOSE e \in Cuts : e > c /\ \A f \in Cuts : ~(c < f /\ f < e)
    IN  SubSeq(stext, c + 2, d)

\* the name is in the sentence, letter for letter but for the case
NameIn(sentence) ==
    \E k \in 0..(Len(sentence) - Len(company_name)) :
        \A j \in 1..Len(company_name) :
            LowerChar(sentence[k + j]) = LowerChar(company_name[j])

\* the cuts that open a sentence with the name in it
NamedCuts == {c \in Cuts : c < Len(stext) /\ NameIn(SentenceAt(c))}

\* the sentences opened by the cuts C, in the order of the text, with a
\* space between two of them
RECURSIVE InOrder(_)
InOrder(C) ==
    IF C = {} THEN <<>>
    ELSE LET c == CHOOSE x \in C : \A y \in C : x <= y
         IN  IF C = {c} THEN SentenceAt(c)
             ELSE SentenceAt(c) \o <<" ">> \o InOrder(C \ {c})

\* C19: analyze_context scores exactly the '.'-delimited sentences that
\* contain the company name as a case-insensitive substring, in their order
\* in the text, and the whole text when no sentence contains it; its result
\* is the result of analyze on what it scores.
C19_ScoresNamedSentences ==
    sent_op = "analyze_context" =>
        /\ scored = (IF NamedCuts = {} THEN stext ELSE InOrder(NamedCuts))
        /\ sentiment = Analyze(scored, vader)
        /\ NamedCuts = {} => sentiment = Analyze(stext, vader)

\* C19 happens: the name, written in another case, is in the first and in
\* one more of three sentences
C19_Witness ==
    /\ sent_op = "analyze_context"
    /\ Cardinality(Cuts) = 4
    /\ Cardinality(NamedCuts) = 2
    /\ -1 \in NamedCuts
    /\ ~Contains(company_name, stext)
    /\ company_name # <<>>
    /\ scored # stext

(***************************************************************************)
(* Claims about a query that waits (checked under SpecLive).               *)
(***************************************************************************)
\* C20: a query does not hang: once the embedding model or the generation
\* backend has kept it waiting longer than the caller's timeout, the query
\* has returned, and what it has returned is the error result.
C20_TimeoutGivesErrorResult ==
    (op.name = "query" /\ elapsed > op.timeout) =>
        (qpc = "returned" /\ ret = ErrorResult)

(***************************************************************************)
(* Claims about the generation client, the document filter, the sources    *)
(* and re-indexing (checked under Spec).                                   *)
(***************************************************************************)
\* C21: the generation client returns the canned mock text only when the mock
\* mode was selected at construction.  ERNIEClient() takes no argument and
\* query builds its client that way, so no client of the code is built with
\* the mock mode selected: whatever the credentials and the backend do, the
\* answer of a query that called generate is not the canned text.
C21_MockOnlyWhenSelected ==
    (op.name = "query" /\ Calls("generate") # {}) => ret.answer # MockAnswer

\* C22: for every document_id passed to query, 0 included, every source of
\* the result has that document_id.
C22_SourcesOfTheDocument ==
    (op.name = "query" /\ op.document_id # None) =>
        \A i \in 1..Len(ret.sources) :
            ret.sources[i].document_id = op.document_id

\* the stored vector a source entry names
SourceVector(src) ==
    CHOOSE w \in collection : w.id = VectorId(src.document_id, src.chunk_id)

\* C25: in every result with matches, sources holds one entry per match, at
\* most top_k of them, no match twice and nearest first, and the i-th segment
\* of context is labeled i (from 1) and carries the text of the match that
\* the i-th source names.
C25_SourcesMatchContext ==
    (op.name = "query" /\ "confidence" \in DOMAIN ret) =>
        LET n == Len(ret.sources)
            M == Matching(collection, WhereFilter(op.document_id))
        IN  /\ n = Min2(op.top_k, Cardinality(M))
            /\ n >= 1
            /\ Len(ret.context) = n
            /\ \A i \in 1..n : SourceVector(ret.sources[i]) \in M
            /\ \A i, j \in 1..n : i < j =>
                  /\ SourceVector(ret.sources[i]) # SourceVector(ret.sources[j])
                  /\ SourceDistance(ret.sources[i])
                        <= SourceDistance(ret.sources[j])
            /\ \A i \in 1..n :
                  ret.context[i] = <<i, SourceVector(ret.sources[i]).document>>

\* C25 happens: a result with two sources of different texts
C25_Witness ==
    /\ op.name = "query"
    /\ "confidence" \in DOMAIN ret
    /\ Len(ret.sources) = 2
    /\ ret.context[1][2] # ret.context[2][2]

\* C26: when an index_document of D has returned n >= 1, the vectors stored
\* for D are the chunks of that indexing: chunk ids 0..n-1, nothing left of
\* an earlier indexing of D, each with total_chunks = n.
C26_VectorsMirrorLatestIndexing ==
    (op.name = "index_document" /\ "returned" \in DOMAIN ret
        /\ op.chunks # <<>>) =>
        VectorsOf(op.document_id) = Batch(op.document_id, op.chunks)

\* one of the calls index_document made has failed
IndexFailed(l) == \E i \in 1..Len(l) : l[i][2] \in {"raise", "reject"}

\* C27: when the embedding or the batch add of an index_document raises, the
\* call raises to its caller and the index holds what it held before.
C27_FailedIndexLeavesIndex ==
    [][(op'.name = "index_document" /\ IndexFailed(log'))
        => (/\ "raised" \in DOMAIN ret'
            /\ collection' = collection)]_vars

\* C27 happens: the add of two chunks has raised on an index that holds
\* vectors
C27_Witness ==
    /\ op.name = "index_document"
    /\ Called("add", "raise")
    /\ Len(op.chunks) = 2
    /\ "raised" \in DOMAIN ret
    /\ collection # {}

(***************************************************************************)
(* Claims about the sentence boundary (SpecChunk) and about the default    *)
(* parameters (SpecDefault).                                               *)
(***************************************************************************)
\* the index in its window of the last period of the window that starts at st
LastPeriod(st) == RFind(Slice(text, st, st + chunk_size), ".")

\* the period at index last_period is one of the last 30% of the chunk_size
\* characters of a window
PeriodInLastThirty(last_period) ==
    last_period >= 0 /\ 10 * last_period >= 7 * chunk_size

\* C23: for each window whose right edge start + chunk_size lies before the
\* end of the text, the chunk ends right after the last period of the window
\* if that period lies in the last 30% of the window, and is the full window
\* otherwise; a window that reaches the end of the text is not truncated.
\* Stated for chunk_size > 0.
C23_PeriodTruncation ==
    chunk_size > 0 =>
        \A i \in 1..Len(spans) :
            LET st == spans[i][1]
                end == spans[i][2]
            IN  IF st + chunk_size < Len(text)
                       /\ PeriodInLastThirty(LastPeriod(st))
                THEN end = st + LastPeriod(st) + 1
                ELSE end = st + chunk_size

DefaultConfig == chunk_size = DefaultChunkSize /\ overlap = DefaultOverlap

\* the least advance of start the claim gives: 500 characters
ClaimedAdvance == DefaultChunkSize \div 2

\* C30: with chunk_size 1000 and overlap 200, start increases by at least 500
\* characters on every iteration, so that the loop, which runs while start is
\* below len(text), ends with at most ceil(len(text) / 500) chunks.
C30_DefaultsTerminate ==
    /\ [][(DefaultConfig /\ Len(chunks') = Len(chunks) + 1)
            => start' >= start + ClaimedAdvance]_vars
    /\ []((DefaultConfig /\ cpc # "entry")
            => (/\ start >= ClaimedAdvance * Len(chunks)
                /\ ClaimedAdvance * Len(chunks) < Len(text) + ClaimedAdvance))

\* C30 happens: a run that returned after a window was cut at a period
C30_Witness ==
    /\ DefaultConfig
    /\ cpc = "done"
    /\ \E i \in 1..Len(spans) : spans[i][2] - spans[i][1] < chunk_size

(***************************************************************************)
(* Claims about the risk levels (SpecLevels) and the uploaded documents    *)
(* (SpecDocs).                                                             *)
(***************************************************************************)
\* C24: for every score in [0, 100], RiskScorer._get_risk_level, the
\* company-details endpoint and FinancialAnalyzer._calculate_risk give the
\* same level.
C24_OneThresholdSet ==
    levels # Idle =>
        /\ levels.scorer = levels.details
        /\ levels.details = levels.analyzer

\* C29: every document accepted by upload_document is stored with
\* processed = 0; once its background task has run to its end the document
\* has processed = 1, whatever the imports, the extraction, the analysis and
\* the processing did; and processed never returns from 1 to 0.
C29_ProcessedAfterTask ==
    /\ [][\A id \in 1..Len(documents') :
            id > Len(documents) => documents'[id].processed = 0]_vars
    /\ [](\A id \in 1..Len(documents) :
            tasks[id].pc = "done" => documents[id].processed = 1)
    /\ [][\A id \in 1..Len(documents) :
            documents[id].processed = 1 => documents'[id].processed = 1]_vars

(***************************************************************************)
(* Claims about the level returned with the rounded score (SpecRisk).      *)
(***************************************************************************)
\* C28: in every result of calculate_risk on a list that is not empty, the
\* level agrees with the returned overall_risk, the final score rounded to 2
\* decimals (held in hundredths): overall_risk >= 70 exactly when the level
\* is HIGH, 40 <= overall_risk < 70 exactly when it is MEDIUM, and
\* overall_risk < 40 exactly when it is LOW.
C28_LevelAgreesWithRounded ==
    (RiskCalled /\ articles # <<>> /\ "overall_risk" \in DOMAIN risk) =>
        /\ (risk.overall_risk >= 70 * 100) <=> (risk.risk_level = "HIGH")
        /\ (risk.overall_risk >= 40 * 100 /\ risk.overall_risk < 70 * 100)
              <=> (risk.risk_level = "MEDIUM")
        /\ (risk.overall_risk < 40 * 100) <=> (risk.risk_level = "LOW")

\* C28, amended: the level agrees with the returned overall_risk except at
\* the thresholds themselves, where a final score just below the threshold is
\* returned rounded up to it: HIGH comes with overall_risk >= 70 and every
\* overall_risk > 70 with HIGH; MEDIUM comes with 40 <= overall_risk <= 70 and
\* every overall_risk strictly between with MEDIUM; LOW comes with
\* overall_risk <= 40 and every overall_risk < 40 with LOW.
C28_LevelAgreesOffThresholds ==
    (RiskCalled /\ articles # <<>> /\ "overall_risk" \in DOMAIN risk) =>
        /\ risk.risk_level = "HIGH" => risk.overall_risk >= 70 * 100
        /\ risk.overall_risk > 70 * 100 => risk.risk_level = "HIGH"
        /\ risk.risk_level = "MEDIUM"
              => (risk.overall_risk >= 40 * 100 /\ risk.overall_risk <= 70 * 100)
        /\ (risk.overall_risk > 40 * 100 /\ risk.overall_risk < 70 * 100)
              => risk.risk_level = "MEDIUM"
        /\ risk.risk_level = "LOW" => risk.overall_risk <= 40 * 100
        /\ risk.overall_risk < 40 * 100 => risk.risk_level = "LOW"

\* C28 happens: a final score just below 40, returned as 40.00 with LOW
C28_Witness ==
    /\ RiskCalled
    /\ articles # <<>>
    /\ "overall_risk" \in DOMAIN risk
    /\ risk.overall_risk = 40 * 100
    /\ risk.risk_level = "LOW"
    /\ ~AtLeast(locals.final_risk, 40)

====
